---- MODULE Spec2Model ----
(***************************************************************************)
(* A model of the Paymodel Python SDK (sdk/python/paymodel.py): the client *)
(* constructor, the GET/POST transport with its error mapping, and the     *)
(* server-sent-event stream decoder of ChatCompletions._stream.            *)
(*                                                                         *)
(* Text is a sequence of one-character strings.  The modelled alphabet is  *)
(* ASCII without the backslash, so JSON string escapes are outside it, as  *)
(* are the NaN and Infinity literals.                                      *)
(***************************************************************************)
EXTENDS Integers, Sequences, FiniteSets, TLC

(***************************************************************************)
(* The state: the client, the last call made through it, and the decoder   *)
(* of a streaming response.                                                *)
(***************************************************************************)
VARIABLES
    payer,       \* the payer argument
    base_url,    \* the base_url argument
    ctor,        \* "new": not yet constructed; "ok": constructed;
                 \* "ValueError": the constructor raised
    _payer,      \* self._payer
    _base_url    \* self._base_url

clientVars == <<payer, base_url, ctor, _payer, _base_url>>

VARIABLES
    op,          \* the operation called last
    request,     \* the request it sent
    response,    \* the response it got
    outcome      \* what it did: returned a result or raised

httpVars == <<op, request, response, outcome>>

VARIABLES
    lineIds,     \* the lines of the response body, as indices into EventLines
    tail,        \* its unterminated last line, or 0
    wire,        \* the bytes of the response body
    pos,         \* how many of them the raw reads have consumed
    continued,   \* the last raw read arrived with text already in the buffer
    buffer,      \* _stream's buffer
    chunks,      \* the chunks yielded so far
    pc           \* "read": at the for loop; "scan": in the while loop;
                 \* "done": returned at the sentinel; "exhausted": the
                 \* response ended; "raised": an exception left the generator

streamVars == <<lineIds, tail, wire, pos, continued, buffer, chunks, pc>>

vars == <<clientVars, httpVars, streamVars>>

(***************************************************************************)
(* Python values.  Every value is a record of one shape so that any two    *)
(* values can be compared: t is the type, s the text of a str or the       *)
(* lexeme of a number, keys/kids the keys and values of a dict (in         *)
(* insertion order) and kids the items of a list.                          *)
(***************************************************************************)
None == [t |-> "null", s |-> <<>>, keys |-> <<>>, kids |-> <<>>]

PyBool(b) == [t |-> IF b THEN "true" ELSE "false", s |-> <<>>, keys |-> <<>>, kids |-> <<>>]

PyStr(s) == [t |-> "str", s |-> s, keys |-> <<>>, kids |-> <<>>]

PyNum(s) == [t |-> "num", s |-> s, keys |-> <<>>, kids |-> <<>>]

PyList(kids) == [t |-> "list", s |-> <<>>, keys |-> <<>>, kids |-> kids]

PyDict(keys, kids) == [t |-> "dict", s |-> <<>>, keys |-> keys, kids |-> kids]

EmptyDict == PyDict(<<>>, <<>>)

DigitChars == <<"0", "1", "2", "3", "4", "5", "6", "7", "8", "9">>

Digits == {DigitChars[i] : i \in 1..Len(DigitChars)}

\* str(n) for a natural number n
RECURSIVE IntText(_)
IntText(n) ==
    IF n < Len(DigitChars) THEN <<DigitChars[n + 1]>>
    ELSE IntText(n \div Len(DigitChars)) \o <<DigitChars[(n % Len(DigitChars)) + 1]>>

PyInt(n) == PyNum(IntText(n))

\* d[k] = v on a dict: a key already present keeps its place and takes the
\* new value, a new key is added at the end
DictSet(keys, kids, k, v) ==
    IF \E i \in 1..Len(keys) : keys[i] = k
    THEN LET i == CHOOSE j \in 1..Len(keys) : keys[j] = k
         IN  PyDict(keys, [kids EXCEPT ![i] = v])
    ELSE PyDict(Append(keys, k), Append(kids, v))

\* d.get(k, default) on a dict d
get(d, k, default) ==
    IF \E i \in 1..Len(d.keys) : d.keys[i] = k
    THEN d.kids[CHOOSE i \in 1..Len(d.keys) : d.keys[i] = k]
    ELSE default

(***************************************************************************)
(* json.loads on a str: the grammar of the standard decoder (objects,      *)
(* arrays, strings, numbers, null/true/false; whitespace is space, tab,    *)
(* newline and carriage return; anything after the value is "Extra data"). *)
(* Positions are indices into the text, from 1.                            *)
(***************************************************************************)
JsonWs == {" ", "\t", "\n", "\r"}

ControlChars == {"\t", "\n", "\r", "\f"}

At(s, p, c) == p <= Len(s) /\ s[p] = c

HasAt(s, p, w) == p + Len(w) - 1 <= Len(s) /\ SubSeq(s, p, p + Len(w) - 1) = w

\* the first position from p on that holds no character of the set cs
\* (Len(s) + 1 when there is none)
SkipOver(s, p, cs) ==
    IF p > Len(s) THEN p
    ELSE CHOOSE q \in p..(Len(s) + 1) :
             /\ q = Len(s) + 1 \/ s[q] \notin cs
             /\ \A j \in p..(q - 1) : s[j] \in cs

SkipWs(s, p) == SkipOver(s, p, JsonWs)

ScanDigits(s, p) == SkipOver(s, p, Digits)

\* NUMBER_RE = (-?(?:0|[1-9]\d*))(\.\d+)?([eE][-+]?\d+)?  The position after
\* the match, or 0 when there is none.
IntEnd(s, p) ==
    IF At(s, p, "0") THEN p + 1
    ELSE IF p <= Len(s) /\ s[p] \in Digits THEN ScanDigits(s, p)
    ELSE 0

FracEnd(s, q) ==
    IF q # 0 /\ At(s, q, ".") /\ q + 1 <= Len(s) /\ s[q + 1] \in Digits
    THEN ScanDigits(s, q + 1) ELSE q

ExpDigits(s, q) ==
    IF q # 0 /\ (At(s, q, "e") \/ At(s, q, "E"))
    THEN (IF At(s, q + 1, "-") \/ At(s, q + 1, "+") THEN q + 2 ELSE q + 1)
    ELSE 0

ExpEnd(s, q, e) ==
    IF e # 0 /\ e <= Len(s) /\ s[e] \in Digits THEN ScanDigits(s, e) ELSE q

NumberEnd(s, q) == ExpEnd(s, q, ExpDigits(s, q))

ScanNumber(s, p) == NumberEnd(s, FracEnd(s, IntEnd(s, IF At(s, p, "-") THEN p + 1 ELSE p)))

\* py_scanstring, strict, for text without escapes: the position of the
\* closing quote of the string whose opening quote is at p - 1, or 0 when
\* the string is unterminated or holds a control character
StringEnd(s, p) ==
    IF \E q \in p..Len(s) : s[q] = "\"" /\ \A j \in p..(q - 1) : s[j] \notin ControlChars \cup {"\""}
    THEN CHOOSE q \in p..Len(s) : s[q] = "\"" /\ \A j \in p..(q - 1) : s[j] # "\""
    ELSE 0

(***************************************************************************)
(* The decoder as a pushdown automaton.  A configuration is                *)
(*   mode   "value": a value is expected at p;  "key": a dict key is       *)
(*          expected at p;  "after": the value v has just ended before p;  *)
(*          "ok": the outermost value v is complete;  "fail": the text is  *)
(*          not JSON (json.JSONDecodeError)                                *)
(*   stack  the containers being read, innermost last: c is the list or    *)
(*          dict so far and key the dict key whose value is being read     *)
(***************************************************************************)
Cfg(mode, p, v, stack) == [mode |-> mode, p |-> p, v |-> v, stack |-> stack]

Failed == Cfg("fail", 0, None, <<>>)

Frame(c, key) == [c |-> c, key |-> key]

Push(stack, c) == Append(stack, Frame(c, <<>>))

Pop(stack) == SubSeq(stack, 1, Len(stack) - 1)

Top(stack) == stack[Len(stack)]

\* scan_once at p, a position that holds no whitespace
StepValue(s, p, stack) ==
    IF p > Len(s) THEN Failed
    ELSE CASE s[p] = "\"" ->
                IF StringEnd(s, p + 1) = 0 THEN Failed
                ELSE Cfg("after", StringEnd(s, p + 1) + 1,
                         PyStr(SubSeq(s, p + 1, StringEnd(s, p + 1) - 1)), stack)
           [] s[p] = "{" ->
                IF At(s, SkipWs(s, p + 1), "}")
                THEN Cfg("after", SkipWs(s, p + 1) + 1, EmptyDict, stack)
                ELSE Cfg("key", SkipWs(s, p + 1), None, Push(stack, EmptyDict))
           [] s[p] = "[" ->
                IF At(s, SkipWs(s, p + 1), "]")
                THEN Cfg("after", SkipWs(s, p + 1) + 1, PyList(<<>>), stack)
                ELSE Cfg("value", SkipWs(s, p + 1), None, Push(stack, PyList(<<>>)))
           [] HasAt(s, p, <<"n","u","l","l">>) -> Cfg("after", p + 4, None, stack)
           [] HasAt(s, p, <<"t","r","u","e">>) -> Cfg("after", p + 4, PyBool(TRUE), stack)
           [] HasAt(s, p, <<"f","a","l","s","e">>) -> Cfg("after", p + 5, PyBool(FALSE), stack)
           [] OTHER ->
                IF ScanNumber(s, p) = 0 THEN Failed
                ELSE Cfg("after", ScanNumber(s, p),
                         PyNum(SubSeq(s, p, ScanNumber(s, p) - 1)), stack)

\* JSONObject at the opening quote of a key: the key, the colon, and on to
\* the value
StepKey(s, p, stack) ==
    IF ~At(s, p, "\"") \/ StringEnd(s, p + 1) = 0 THEN Failed
    ELSE IF ~At(s, SkipWs(s, StringEnd(s, p + 1) + 1), ":") THEN Failed
    ELSE Cfg("value", SkipWs(s, SkipWs(s, StringEnd(s, p + 1) + 1) + 1), None,
             Append(Pop(stack),
                    Frame(Top(stack).c, SubSeq(s, p + 1, StringEnd(s, p + 1) - 1))))

\* the container on top of the stack with the value v added
Added(f, v) ==
    IF f.c.t = "list" THEN PyList(Append(f.c.kids, v))
    ELSE DictSet(f.c.keys, f.c.kids, f.key, v)

\* after a value: the end of the text, or the next item, or the end of the
\* container on top of the stack; q is the next position that holds no
\* whitespace
StepAfter(s, q, v, stack) ==
    IF stack = <<>> THEN Cfg("ok", q, v, stack)
    ELSE IF At(s, q, ",")
         THEN Cfg(IF Top(stack).c.t = "list" THEN "value" ELSE "key", SkipWs(s, q + 1), None,
                  Append(Pop(stack), Frame(Added(Top(stack), v), <<>>)))
    ELSE IF At(s, q, IF Top(stack).c.t = "list" THEN "]" ELSE "}")
         THEN Cfg("after", q + 1, Added(Top(stack), v), Pop(stack))
    ELSE Failed

Step(s, st) ==
    CASE st.mode = "value" -> StepValue(s, st.p, st.stack)
      [] st.mode = "key" -> StepKey(s, st.p, st.stack)
      [] st.mode = "after" -> StepAfter(s, SkipWs(s, st.p), st.v, st.stack)

RECURSIVE Run(_, _)
Run(s, st) ==
    IF st.mode \in {"ok", "fail"} THEN st
    ELSE CHOOSE r \in {Run(s, n) : n \in {Step(s, st)}} : TRUE

\* json.loads(s): [ok, v]; ok = FALSE is json.JSONDecodeError ("Extra data"
\* when text follows the value)
Decoded(s, st) == [ok |-> st.mode = "ok" /\ st.p = Len(s) + 1, v |-> st.v]

json_loads(s) == Decoded(s, Run(s, Cfg("value", SkipWs(s, 1), None, <<>>)))

(***************************************************************************)
(* Response shaping: ChatCompletionChunk and its parts.                    *)
(***************************************************************************)
DeltaMessage(role, content) == [role |-> role, content |-> content]

StreamChoice(index, delta, finish_reason) ==
    [index |-> index, delta |-> delta, finish_reason |-> finish_reason]

\* only a dict has .get: x.get(...) on any other value is AttributeError
HasGet(x) == x.t = "dict"

\* enumerate(x) is TypeError unless x is a list, a dict or a str
Iterable(x) == x.t \in {"list", "dict", "str"}

\* what `for i, c in enumerate(x)` visits: the items of a list, the keys of
\* a dict, the characters of a str
Items(x) ==
    CASE x.t = "list" -> x.kids
      [] x.t = "dict" -> [i \in 1..Len(x.keys) |-> PyStr(x.keys[i])]
      [] x.t = "str" -> [i \in 1..Len(x.s) |-> PyStr(<<x.s[i]>>)]
      [] OTHER -> <<>>

\* ChatCompletionChunk(data) raises (AttributeError or TypeError)
ChunkRaises(data) ==
    \/ ~HasGet(data)
    \/ ~Iterable(get(data, <<"c","h","o","i","c","e","s">>, PyList(<<>>)))
    \/ LET cs == Items(get(data, <<"c","h","o","i","c","e","s">>, PyList(<<>>)))
       IN  \E i \in 1..Len(cs) :
               \/ ~HasGet(cs[i])
               \/ ~HasGet(get(cs[i], <<"d","e","l","t","a">>, EmptyDict))

ChatCompletionChunk(data) ==
    LET cs == Items(get(data, <<"c","h","o","i","c","e","s">>, PyList(<<>>)))
    IN  [id |-> get(data, <<"i","d">>, PyStr(<<>>)),
         object |-> PyStr(<<"c","h","a","t",".","c","o","m","p","l","e","t","i","o","n",".","c","h","u","n","k">>),
         model |-> get(data, <<"m","o","d","e","l">>, PyStr(<<>>)),
         choices |->
             [i \in 1..Len(cs) |->
                 StreamChoice(
                     get(cs[i], <<"i","n","d","e","x">>, PyInt(i - 1)),
                     DeltaMessage(
                         get(get(cs[i], <<"d","e","l","t","a">>, EmptyDict), <<"r","o","l","e">>, None),
                         get(get(cs[i], <<"d","e","l","t","a">>, EmptyDict), <<"c","o","n","t","e","n","t">>, None)),
                     get(cs[i], <<"f","i","n","i","s","h","_","r","e","a","s","o","n">>, None))]]

(***************************************************************************)
(* str helpers used by the stream decoder.                                 *)
(***************************************************************************)
NL == "\n"

\* the whitespace str.strip() removes, within the modelled alphabet
PyWhitespace == {" ", "\t", "\n", "\r", "\f"}

\* s.strip(): s without its leading and trailing whitespace
strip(s) ==
    IF \A i \in 1..Len(s) : s[i] \in PyWhitespace THEN <<>>
    ELSE SubSeq(s,
                CHOOSE i \in 1..Len(s) :
                    s[i] \notin PyWhitespace /\ \A j \in 1..(i - 1) : s[j] \in PyWhitespace,
                CHOOSE i \in 1..Len(s) :
                    s[i] \notin PyWhitespace /\ \A j \in (i + 1)..Len(s) : s[j] \in PyWhitespace)

startswith(s, prefix) == HasAt(s, 1, prefix)

\* "\n" in buffer
HasNewline(s) == \E i \in 1..Len(s) : s[i] = NL

FirstNewline(s) == CHOOSE i \in 1..Len(s) : s[i] = NL /\ \A j \in 1..(i - 1) : s[j] # NL

\* buffer.split("\n", 1) on a buffer that holds a newline
split(s) == <<SubSeq(s, 1, FirstNewline(s) - 1), SubSeq(s, FirstNewline(s) + 1, Len(s))>>

(***************************************************************************)
(* The bytes of the response body and their decoding.  The alphabet is     *)
(* ASCII, one byte per character.                                          *)
(***************************************************************************)
Ascii ==
    9 :> "\t" @@ 10 :> "\n" @@ 12 :> "\f" @@ 13 :> "\r" @@ 32 :> " " @@ 34 :> "\""
    @@ 44 :> "," @@ 45 :> "-" @@ 46 :> "." @@ 47 :> "/" @@ 48 :> "0" @@ 49 :> "1"
    @@ 50 :> "2" @@ 51 :> "3" @@ 52 :> "4" @@ 53 :> "5" @@ 55 :> "7" @@ 58 :> ":"
    @@ 60 :> "<" @@ 62 :> ">" @@ 65 :> "A" @@ 66 :> "B" @@ 67 :> "C" @@ 68 :> "D"
    @@ 69 :> "E" @@ 70 :> "F" @@ 71 :> "G" @@ 72 :> "H" @@ 73 :> "I" @@ 74 :> "J"
    @@ 75 :> "K" @@ 76 :> "L" @@ 77 :> "M" @@ 78 :> "N" @@ 79 :> "O" @@ 80 :> "P"
    @@ 81 :> "Q" @@ 82 :> "R" @@ 83 :> "S" @@ 84 :> "T" @@ 85 :> "U" @@ 86 :> "V"
    @@ 87 :> "W" @@ 88 :> "X" @@ 89 :> "Y" @@ 90 :> "Z" @@ 91 :> "[" @@ 93 :> "]"
    @@ 95 :> "_" @@ 97 :> "a" @@ 98 :> "b" @@ 99 :> "c" @@ 100 :> "d" @@ 101 :> "e"
    @@ 102 :> "f" @@ 103 :> "g" @@ 104 :> "h" @@ 105 :> "i" @@ 106 :> "j" @@ 107 :> "k"
    @@ 108 :> "l" @@ 109 :> "m" @@ 110 :> "n" @@ 111 :> "o" @@ 112 :> "p" @@ 113 :> "q"
    @@ 114 :> "r" @@ 115 :> "s" @@ 116 :> "t" @@ 117 :> "u" @@ 118 :> "v" @@ 119 :> "w"
    @@ 120 :> "x" @@ 121 :> "y" @@ 122 :> "z" @@ 123 :> "{" @@ 125 :> "}"

ord(c) == CHOOSE b \in DOMAIN Ascii : Ascii[b] = c

encode(s) == [i \in 1..Len(s) |-> ord(s[i])]

\* raw_line.decode("utf-8")
decode(raw) == [i \in 1..Len(raw) |-> Ascii[raw[i]]]

(***************************************************************************)
(* ChatCompletions._stream: the decoder of the event stream.               *)
(***************************************************************************)
DataPrefix == <<"d","a","t","a",":"," ">>

DataPrefixLen == 6

Sentinel == <<"[","D","O","N","E","]">>

\* buffer += line, with the reading it replaces when the buffer is not kept
AccumulateDropped(buf, line) == line

Accumulate(buf, line) == buf \o line

Continue == [act |-> "continue", out |-> <<>>]

\* the body of the while loop after the strip, with the reading in which
\* json.JSONDecodeError is not caught
HandleUncaught(event_line) ==
    IF ~startswith(event_line, DataPrefix) THEN Continue
    ELSE LET payload == SubSeq(event_line, DataPrefixLen + 1, Len(event_line))
             chunk_data == json_loads(payload)
         IN  IF payload = Sentinel THEN [act |-> "return", out |-> <<>>]
             ELSE IF ~chunk_data.ok THEN [act |-> "raise", out |-> <<>>]
             ELSE IF ChunkRaises(chunk_data.v) THEN [act |-> "raise", out |-> <<>>]
             ELSE [act |-> "yield", out |-> <<ChatCompletionChunk(chunk_data.v)>>]

\* the body of the while loop after the strip: what one event line does
Handle(event_line) ==
    IF ~startswith(event_line, DataPrefix) THEN Continue
    ELSE LET payload == SubSeq(event_line, DataPrefixLen + 1, Len(event_line))
             chunk_data == json_loads(payload)
         IN  IF payload = Sentinel THEN [act |-> "return", out |-> <<>>]
             ELSE IF ~chunk_data.ok THEN Continue
             ELSE IF ChunkRaises(chunk_data.v) THEN [act |-> "raise", out |-> <<>>]
             ELSE [act |-> "yield", out |-> <<ChatCompletionChunk(chunk_data.v)>>]

(***************************************************************************)
(* Paymodel.__init__: the client constructor.  An argument is a str or     *)
(* None: [none, s].                                                        *)
(***************************************************************************)
NoArg == [none |-> TRUE, s |-> <<>>]

StrArg(s) == [none |-> FALSE, s |-> s]

\* the truth value of a str-or-None argument: None and "" are false
Truthy(a) == ~a.none /\ a.s # <<>>

DEFAULT_BASE_URL == <<"h","t","t","p","s",":","/","/","p","a","y","m","o","d","e","l",".","b","f","l","y","n","n","4","1","4","1",".","w","o","r","k","e","r","s",".","d","e","v">>

\* len(payer) != 42
AddrLen == 42

UpperCase == <<"A","B","C","D","E","F","G","H","I","J","K","L","M","N","O","P","Q","R","S","T","U","V","W","X","Y","Z">>

LowerCase == <<"a","b","c","d","e","f","g","h","i","j","k","l","m","n","o","p","q","r","s","t","u","v","w","x","y","z">>

\* str.lower() on one character, with the reading that leaves it as it is
lowerKept(c) == c

lower(c) ==
    IF \E i \in 1..Len(UpperCase) : UpperCase[i] = c
    THEN LowerCase[CHOOSE i \in 1..Len(UpperCase) : UpperCase[i] = c]
    ELSE c

\* s.rstrip("/")
rstripSlash(s) ==
    IF \A i \in 1..Len(s) : s[i] = "/" THEN <<>>
    ELSE SubSeq(s, 1, CHOOSE i \in 1..Len(s) : s[i] # "/" /\ \A j \in (i + 1)..Len(s) : s[j] = "/")

\* the guard of __init__: the payer is rejected
Rejected(p) == ~Truthy(p) \/ ~startswith(p.s, <<"0","x">>) \/ Len(p.s) # AddrLen

(***************************************************************************)
(* The payer arguments tried: a prefix, then a run of one character with   *)
(* one position holding another character, of a length around 40.          *)
(***************************************************************************)
Prefixes == {<<"0","x">>, <<"0","X">>, <<"x","0">>, <<>>}

FillChars == {"a", "0"}

OddChars == {"A", "F", "f", "9", "g", "G", "z", " "}

RunLengths == (AddrLen - 3)..(AddrLen - 1)

Run1(n, fill, k, c) == [i \in 1..n |-> IF i = k THEN c ELSE fill]

PayerArgs ==
    {NoArg, StrArg(<<>>)} \cup
    {StrArg(pre \o Run1(n, fill, k, c)) :
        pre \in Prefixes, n \in RunLengths, fill \in FillChars, k \in {1, AddrLen - 3}, c \in OddChars}

BaseUrlArgs ==
    {NoArg, StrArg(<<>>), StrArg(<<"h","t","t","p","s",":","/","/","g","w",".","e","x","a","m","p","l","e">>), StrArg(<<"h","t","t","p","s",":","/","/","g","w",".","e","x","a","m","p","l","e","/">>),
     StrArg(<<"h","t","t","p","s",":","/","/","g","w",".","e","x","a","m","p","l","e","/","/">>)}

ClientInit ==
    /\ payer \in PayerArgs
    /\ base_url \in BaseUrlArgs
    /\ ctor = "new"
    /\ _payer = <<>>
    /\ _base_url = <<>>

\* a client constructed with a payer address and the default base URL
ClientReady ==
    /\ payer = StrArg(<<"0","x">> \o Run1(AddrLen - 2, "a", 1, "F"))
    /\ base_url = NoArg
    /\ ctor = "ok"
    /\ _payer = <<"0","x">> \o Run1(AddrLen - 2, "a", 1, "f")
    /\ _base_url = DEFAULT_BASE_URL

\* Paymodel(payer, base_url)
Construct ==
    /\ ctor = "new"
    /\ \/ /\ Rejected(payer)
          /\ ctor' = "ValueError"
          /\ UNCHANGED <<_payer, _base_url>>
       \/ /\ ~Rejected(payer)
          /\ ctor' = "ok"
          /\ _payer' = [i \in 1..Len(payer.s) |-> lower(payer.s[i])]
          /\ _base_url' = rstripSlash(IF Truthy(base_url) THEN base_url.s ELSE DEFAULT_BASE_URL)
    /\ UNCHANGED <<payer, base_url, httpVars, streamVars>>

(***************************************************************************)
(* Response shaping: ChatCompletion and its parts.                         *)
(***************************************************************************)
Message(role, content) == [role |-> role, content |-> content]

Choice(index, message, finish_reason) ==
    [index |-> index, message |-> message, finish_reason |-> finish_reason]

Usage(prompt_tokens, completion_tokens, total_tokens) ==
    [prompt_tokens |-> prompt_tokens, completion_tokens |-> completion_tokens,
     total_tokens |-> total_tokens]

\* the exception ChatCompletion(data) raises, or "" when it raises none
CompletionError(data) ==
    IF ~HasGet(data) THEN "AttributeError"
    ELSE IF ~Iterable(get(data, <<"c","h","o","i","c","e","s">>, PyList(<<>>))) THEN "TypeError"
    ELSE IF LET cs == Items(get(data, <<"c","h","o","i","c","e","s">>, PyList(<<>>)))
            IN  \E i \in 1..Len(cs) :
                    \/ ~HasGet(cs[i])
                    \/ ~HasGet(get(cs[i], <<"m","e","s","s","a","g","e">>, EmptyDict))
         THEN "AttributeError"
    ELSE IF ~HasGet(get(data, <<"u","s","a","g","e">>, EmptyDict)) THEN "AttributeError"
    ELSE ""

ChatCompletion(data, X_Cost, X_Balance) ==
    LET cs == Items(get(data, <<"c","h","o","i","c","e","s">>, PyList(<<>>)))
        u == get(data, <<"u","s","a","g","e">>, EmptyDict)
    IN  [id |-> get(data, <<"i","d">>, PyStr(<<>>)),
         object |-> get(data, <<"o","b","j","e","c","t">>, PyStr(<<"c","h","a","t",".","c","o","m","p","l","e","t","i","o","n">>)),
         model |-> get(data, <<"m","o","d","e","l">>, PyStr(<<>>)),
         choices |->
             [i \in 1..Len(cs) |->
                 Choice(
                     get(cs[i], <<"i","n","d","e","x">>, PyInt(i - 1)),
                     Message(
                         get(get(cs[i], <<"m","e","s","s","a","g","e">>, EmptyDict), <<"r","o","l","e">>, PyStr(<<"a","s","s","i","s","t","a","n","t">>)),
                         get(get(cs[i], <<"m","e","s","s","a","g","e">>, EmptyDict), <<"c","o","n","t","e","n","t">>, PyStr(<<>>))),
                     get(cs[i], <<"f","i","n","i","s","h","_","r","e","a","s","o","n">>, None))],
         usage |-> Usage(get(u, <<"p","r","o","m","p","t","_","t","o","k","e","n","s">>, PyInt(0)),
                         get(u, <<"c","o","m","p","l","e","t","i","o","n","_","t","o","k","e","n","s">>, PyInt(0)),
                         get(u, <<"t","o","t","a","l","_","t","o","k","e","n","s">>, PyInt(0))),
         cost |-> X_Cost,
         balance |-> X_Balance]

(***************************************************************************)
(* The transport: Paymodel._get and Paymodel._post, and the operations on  *)
(* top of them.  A response is a status line, the headers X-Cost and       *)
(* X-Balance (None when absent) and the bytes of the body.                 *)
(***************************************************************************)
ResponseBodies ==
    << <<"{","\"","c","o","d","e","\"",":","\"","I","N","S","U","F","F","I","C","I","E","N","T","_","F","U","N","D","S","\"",",","\"","e","r","r","o","r","\"",":","\"","b","a","l","a","n","c","e"," ","t","o","o"," ","l","o","w","\"","}">>,
       <<"{","\"","e","r","r","o","r","\"",":","\"","n","o","p","e","\"","}">>,
       <<"{","\"","c","o","d","e","\"",":","\"","E","_","R","A","T","E","\"","}">>,
       <<"{","}">>,
       <<>>,
       <<"<","h","t","m","l",">","B","a","d"," ","G","a","t","e","w","a","y","<","/","h","t","m","l",">">>,
       <<"[","]">>,
       <<"n","u","l","l">>,
       <<"{","\"","b","a","l","a","n","c","e","\"",":","\"","1",".","5","\"","}">>,
       <<"{","\"","i","d","\"",":","\"","a","b","c","\"",",","\"","m","o","d","e","l","\"",":","\"","m","\"",",","\"","c","h","o","i","c","e","s","\"",":","[","{","\"","i","n","d","e","x","\"",":","0",",","\"","m","e","s","s","a","g","e","\"",":","{","\"","r","o","l","e","\"",":","\"","a","s","s","i","s","t","a","n","t","\"",",","\"","c","o","n","t","e","n","t","\"",":","\"","h","i","\"","}",",","\"","f","i","n","i","s","h","_","r","e","a","s","o","n","\"",":","\"","s","t","o","p","\"","}","]",",","\"","u","s","a","g","e","\"",":","{","\"","p","r","o","m","p","t","_","t","o","k","e","n","s","\"",":","3",",","\"","c","o","m","p","l","e","t","i","o","n","_","t","o","k","e","n","s","\"",":","1",",","\"","t","o","t","a","l","_","t","o","k","e","n","s","\"",":","4","}","}">>,
       <<"{","\"","i","d","\"",":","\"","a","b","c","\"",",","\"","c","h","o","i","c","e","s","\"",":","[","{","\"","m","e","s","s","a","g","e","\"",":","\"","h","i","\"","}","]","}">> >>

StatusLines ==
    { [status |-> 200, reason |-> <<"O","K">>],
      [status |-> 402, reason |-> <<"P","a","y","m","e","n","t"," ","R","e","q","u","i","r","e","d">>],
      [status |-> 500, reason |-> <<"I","n","t","e","r","n","a","l"," ","S","e","r","v","e","r"," ","E","r","r","o","r">>] }

HeaderSets ==
    { [X_Cost |-> None, X_Balance |-> None],
      [X_Cost |-> PyStr(<<"0",".","0","0","2">>), X_Balance |-> PyStr(<<"1",".","5">>)] }

Responses ==
    {[line |-> l, headers |-> h, body |-> encode(ResponseBodies[b])] :
        l \in StatusLines, h \in HeaderSets, b \in 1..Len(ResponseBodies)}

\* urlopen raises HTTPError unless the status is 2xx
IsHTTPError(resp) == ~(200 <= resp.line.status /\ resp.line.status < 300)

\* str(e) of an HTTPError
HTTPErrorStr(resp) ==
    PyStr(<<"H","T","T","P"," ","E","r","r","o","r"," ">> \o IntText(resp.line.status) \o <<":"," ">> \o resp.line.reason)

Outcome(kind, code, message, data, result) ==
    [kind |-> kind, code |-> code, message |-> message, data |-> data, result |-> result]

NoResult == <<>>

Raised(kind) == Outcome(kind, None, None, None, NoResult)

\* except urllib.error.HTTPError as e: body = json.loads(e.read()); raise
\* PaymodelError(...), with the reading that passes no data
MapHTTPErrorNoData(resp) ==
    LET body == json_loads(decode(resp.body))
    IN  IF ~body.ok THEN Raised("JSONDecodeError")
        ELSE IF ~HasGet(body.v) THEN Raised("AttributeError")
        ELSE Outcome("PaymodelError",
                     get(body.v, <<"c","o","d","e">>, PyStr(<<"U","N","K","N","O","W","N">>)),
                     get(body.v, <<"e","r","r","o","r">>, HTTPErrorStr(resp)),
                     None, NoResult)

MapHTTPError(resp) ==
    LET body == json_loads(decode(resp.body))
    IN  IF ~body.ok THEN Raised("JSONDecodeError")
        ELSE IF ~HasGet(body.v) THEN Raised("AttributeError")
        ELSE Outcome("PaymodelError",
                     get(body.v, <<"c","o","d","e">>, PyStr(<<"U","N","K","N","O","W","N">>)),
                     get(body.v, <<"e","r","r","o","r">>, HTTPErrorStr(resp)),
                     body.v, NoResult)

\* the try block of _get and of _post: return json.loads(resp.read()), headers
Fetch(resp) ==
    IF IsHTTPError(resp) THEN MapHTTPError(resp)
    ELSE LET data == json_loads(decode(resp.body))
         IN  IF ~data.ok THEN Raised("JSONDecodeError")
             ELSE Outcome("return", None, None, None, data.v)

_get(resp) == Fetch(resp)

_post(resp) == Fetch(resp)

\* ChatCompletions._request
_request(resp) ==
    LET r == _post(resp)
    IN  IF r.kind # "return" THEN r
        ELSE IF CompletionError(r.result) # "" THEN Raised(CompletionError(r.result))
        ELSE Outcome("return", None, None, None,
                     ChatCompletion(r.result, resp.headers.X_Cost, resp.headers.X_Balance))

\* ChatCompletions._stream up to urlopen, which is in no try block: an
\* HTTPError leaves the generator as it is
_stream(resp) ==
    IF IsHTTPError(resp)
    THEN Outcome("HTTPError", PyInt(resp.line.status), HTTPErrorStr(resp), None, NoResult)
    ELSE Outcome("streaming", None, None, None, NoResult)

Request(method, path, data) ==
    [method |-> method, url |-> _base_url \o path, X_Payer |-> _payer, data |-> data]

NoResponse ==
    [line |-> [status |-> 0, reason |-> <<>>],
     headers |-> [X_Cost |-> None, X_Balance |-> None], body |-> <<>>]

HttpIdle ==
    /\ op = "none"
    /\ request = [method |-> "", url |-> <<>>, X_Payer |-> <<>>, data |-> None]
    /\ response = NoResponse
    /\ outcome = Raised("none")

\* an operation builds its request and blocks in urlopen
Send(name, req) ==
    /\ ctor = "ok"
    /\ outcome.kind # "waiting"
    /\ op' = name
    /\ request' = req
    /\ response' = NoResponse
    /\ outcome' = Raised("waiting")
    /\ UNCHANGED <<clientVars, streamVars>>

balance == Send("balance", Request("GET", <<"/","v","1","/","b","a","l","a","n","c","e">>, None))

models == Send("models", Request("GET", <<"/","v","1","/","m","o","d","e","l","s">>, None))

usage == Send("usage", Request("GET", <<"/","v","1","/","u","s","a","g","e">>, None))

deposit ==
    Send("deposit", Request("POST", <<"/","v","1","/","d","e","p","o","s","i","t">>, PyDict(<<<<"t","x","H","a","s","h">>>>, <<PyStr(<<"0","x","a","b","c">>)>>)))

\* the request body of chat.completions.create
CreateBody(stream) ==
    PyDict(<<<<"m","o","d","e","l">>, <<"m","e","s","s","a","g","e","s">>, <<"s","t","r","e","a","m">>>>,
           <<PyStr(<<"l","l","a","m","a","-","3",".","3","-","7","0","b">>), PyList(<<>>), PyBool(stream)>>)

\* chat.completions.create(model, messages)
create == Send("create", Request("POST", <<"/","v","1","/","c","h","a","t","/","c","o","m","p","l","e","t","i","o","n","s">>, CreateBody(FALSE)))

\* chat.completions.create(model, messages, stream=True), up to the first
\* chunk asked of the generator
create_stream ==
    Send("create_stream", Request("POST", <<"/","v","1","/","c","h","a","t","/","c","o","m","p","l","e","t","i","o","n","s">>, CreateBody(TRUE)))

\* what the operation name does with the response resp
Complete(name, resp) ==
    CASE name \in {"balance", "models", "usage"} -> _get(resp)
      [] name = "deposit" -> _post(resp)
      [] name = "create" -> _request(resp)
      [] name = "create_stream" -> _stream(resp)

\* the response arrives and the operation returns or raises
Respond ==
    /\ outcome.kind = "waiting"
    /\ \E resp \in Responses :
          /\ response' = resp
          /\ outcome' = Complete(op, resp)
    /\ UNCHANGED <<op, request, clientVars, streamVars>>

(***************************************************************************)
(* The decoder at work on a response body.  The body is a sequence of      *)
(* event lines, each ended by a newline, and possibly a last line without  *)
(* one.  The raw reads cut it into pieces: `for raw_line in resp` hands    *)
(* over whatever the response object yields, so a piece may end at a       *)
(* newline, inside a line or at the end of the body.                       *)
(***************************************************************************)
EventLines ==
    << <<"d","a","t","a",":"," ","{","\"","i","d","\"",":","\"","x","\"",",","\"","c","h","o","i","c","e","s","\"",":","[","{","\"","i","n","d","e","x","\"",":","0",",","\"","d","e","l","t","a","\"",":","{","\"","c","o","n","t","e","n","t","\"",":","\"","h","e","\"","}","}","]","}">>,
       <<"d","a","t","a",":"," ","{","\"","m","o","d","e","l","\"",":","\"","m","\"",",","\"","c","h","o","i","c","e","s","\"",":","[","{","\"","d","e","l","t","a","\"",":","{","\"","r","o","l","e","\"",":","\"","a","\"","}","}",",","{","\"","i","n","d","e","x","\"",":","3",",","\"","f","i","n","i","s","h","_","r","e","a","s","o","n","\"",":","\"","s","t","o","p","\"","}","]","}">>,
       <<" ","d","a","t","a",":"," "," ","{","}"," ","\r">>,
       <<"d","a","t","a",":"," ","n","o","t","-","j","s","o","n">>,
       <<"d","a","t","a",":"," ","[","D","O","N","E","]">>,
       <<"\r">>,
       <<"d","a","t","a",":"," ","5">>,
       <<"d","a","t","a",":"," ","{","\"","c","h","o","i","c","e","s","\"",":","[","{","\"","d","e","l","t","a","\"",":","\"","x","\"","}","]","}">>,
       <<"d","a","t","a",":"," ","{","\"","c","h","o","i","c","e","s","\"",":","{","}","}">> >>

MaxLines == 2

\* the lines that may also come last without a newline (0: no such line)
TailIds == {0, 1, 7}

\* offsets into a line at which a raw read may end
SplitPoints == {3, 8}

LineSeqs == UNION {[1..n -> 1..Len(EventLines)] : n \in 0..MaxLines}

RECURSIVE Body(_, _)
Body(ids, t) ==
    IF ids = <<>> THEN (IF t = 0 THEN <<>> ELSE EventLines[t])
    ELSE EventLines[Head(ids)] \o <<NL>> \o Body(Tail(ids), t)

\* the positions at which a raw read of the body w may end: after a
\* newline (a readline), at a split point of a line, and at the end
Cuts(w) ==
    {i \in 1..Len(w) :
        \/ w[i] = ord(NL)
        \/ i = Len(w)
        \/ \E o \in SplitPoints :
              /\ i >= o
              /\ i = o \/ w[i - o] = ord(NL)
              /\ \A j \in (i - o + 1)..i : w[j] # ord(NL)}

StreamInit ==
    /\ lineIds \in LineSeqs
    /\ tail \in TailIds
    /\ wire = encode(Body(lineIds, tail))
    /\ pos = 0
    /\ continued = FALSE
    /\ buffer = <<>>
    /\ chunks = <<>>
    /\ pc = "read"

StreamIdle ==
    /\ lineIds = <<>>
    /\ tail = 0
    /\ wire = <<>>
    /\ pos = 0
    /\ continued = FALSE
    /\ buffer = <<>>
    /\ chunks = <<>>
    /\ pc = "idle"

\* for raw_line in resp: line = raw_line.decode("utf-8"); buffer += line
ReadRaw ==
    /\ pc = "read"
    /\ \E e \in Cuts(wire) :
          /\ e > pos
          /\ LET raw_line == SubSeq(wire, pos + 1, e)
                 line == decode(raw_line)
             IN  /\ buffer' = Accumulate(buffer, line)
                 /\ pos' = e
    /\ continued' = (buffer # <<>>)
    /\ pc' = IF HasNewline(buffer') THEN "scan" ELSE "read"
    /\ UNCHANGED <<lineIds, tail, wire, chunks, clientVars, httpVars>>

\* one turn of `while "\n" in buffer`
ScanLine ==
    /\ pc = "scan"
    /\ LET event_line == strip(split(buffer)[1])
           rest == split(buffer)[2]
           h == Handle(event_line)
       IN  /\ buffer' = rest
           /\ chunks' = chunks \o h.out
           /\ pc' = CASE h.act = "return" -> "done"
                      [] h.act = "raise" -> "raised"
                      [] OTHER -> IF HasNewline(rest) THEN "scan" ELSE "read"
    /\ UNCHANGED <<lineIds, tail, wire, pos, continued, clientVars, httpVars>>

\* the response is exhausted: the for loop ends and the generator returns,
\* with the reading in which the buffered text is handled as a last line
StreamEndFlushed ==
    /\ pc = "read"
    /\ pos = Len(wire)
    /\ LET h == Handle(strip(buffer))
       IN  /\ chunks' = chunks \o h.out
           /\ pc' = IF h.act = "raise" THEN "raised" ELSE "exhausted"
    /\ UNCHANGED <<lineIds, tail, wire, pos, continued, buffer, clientVars, httpVars>>

StreamEnd ==
    /\ pc = "read"
    /\ pos = Len(wire)
    /\ pc' = "exhausted"
    /\ UNCHANGED <<lineIds, tail, wire, pos, continued, buffer, chunks, clientVars, httpVars>>

StreamNext == ReadRaw \/ ScanLine \/ StreamEnd

(***************************************************************************)
(* The specifications: the constructor, the transport of a constructed     *)
(* client, and the stream decoder of a streaming response.                 *)
(***************************************************************************)
InitClient == ClientInit /\ HttpIdle /\ StreamIdle

SpecClient == InitClient /\ [][Construct]_vars

InitTransport == ClientReady /\ HttpIdle /\ StreamIdle

TransportNext == balance \/ models \/ usage \/ deposit \/ create \/ create_stream \/ Respond

SpecTransport == InitTransport /\ [][TransportNext]_vars

InitStream == ClientReady /\ HttpIdle /\ StreamInit

SpecStream == InitStream /\ [][StreamNext]_vars

(***************************************************************************)
(* What the wire format says of each event line, independently of the      *)
(* decoder: the lines that are a "data: " line with a JSON payload, those  *)
(* whose payload is a chat-completion chunk, and the chunk each stands     *)
(* for.                                                                    *)
(***************************************************************************)
\* "data: " lines whose payload is JSON
JsonLines == {1, 2, 3, 7, 8, 9}

\* "data: " lines whose payload is not JSON
NotJsonLines == {4}

\* the sentinel line
DoneLines == {5}

\* JSON payloads of the wrong shape: not an object, or a delta that is not
\* an object
MisshapenLines == {7, 8}

\* the JSON payloads that are chunks; line 9 has a "choices" of the wrong
\* shape with nothing in it, which leaves a chunk without choices
ChunkLines == {1, 2, 3, 9}

ChunkOf(id, model, choices) ==
    [id |-> PyStr(id), object |-> PyStr(<<"c","h","a","t",".","c","o","m","p","l","e","t","i","o","n",".","c","h","u","n","k">>),
     model |-> PyStr(model), choices |-> choices]

ExpectedChunk(l) ==
    CASE l = 1 ->
           ChunkOf(<<"x">>, <<>>,
               << [index |-> PyNum(<<"0">>),
                   delta |-> [role |-> None, content |-> PyStr(<<"h","e">>)],
                   finish_reason |-> None] >>)
      [] l = 2 ->
           ChunkOf(<<>>, <<"m">>,
               << [index |-> PyNum(<<"0">>),
                   delta |-> [role |-> PyStr(<<"a">>), content |-> None],
                   finish_reason |-> None],
                  [index |-> PyNum(<<"3">>),
                   delta |-> [role |-> None, content |-> None],
                   finish_reason |-> PyStr(<<"s","t","o","p">>)] >>)
      [] OTHER -> ChunkOf(<<>>, <<>>, <<>>)

\* the text of the response body
Text == Body(lineIds, tail)

\* the position of the newline that ends line k
LineEnd(k) == Len(Body(SubSeq(lineIds, 1, k), 0))

\* how many lines have arrived whole, newline included
Arrived == Cardinality({k \in 1..Len(lineIds) : LineEnd(k) <= pos})

\* how many lines the while loop has taken out of the buffer
Scanned == Arrived - Cardinality({i \in 1..Len(buffer) : buffer[i] = NL})

\* the chunks of the first n lines, in order
RECURSIVE RefChunks(_)
RefChunks(n) ==
    IF n = 0 THEN <<>>
    ELSE RefChunks(n - 1) \o
         (IF lineIds[n] \in ChunkLines THEN <<ExpectedChunk(lineIds[n])>> ELSE <<>>)

\* the first sentinel among the first n lines is line FirstDone(n); without
\* one, n + 1
FirstDone(n) ==
    IF \E k \in 1..n : lineIds[k] \in DoneLines
    THEN CHOOSE k \in 1..n : lineIds[k] \in DoneLines /\ \A j \in 1..(k - 1) : lineIds[j] \notin DoneLines
    ELSE n + 1

\* the text received since the last newline
SinceNewline ==
    LET got == SubSeq(Text, 1, pos)
        nls == {i \in 1..pos : got[i] = NL}
        last == IF nls = {} THEN 0 ELSE CHOOSE i \in nls : \A j \in nls : j <= i
    IN  SubSeq(got, last + 1, pos)

Stopped == pc \in {"done", "exhausted", "raised"}

\* C3: once the decoder has stopped it has yielded exactly one chunk per
\* "data: " line with a JSON payload before the first sentinel, and none
\* for a line at or after it.
C3_OneChunkPerJsonLine ==
    Stopped =>
        Len(chunks) =
            Cardinality({k \in 1..(FirstDone(Len(lineIds)) - 1) : lineIds[k] \in JsonLines})

\* C4: a "data: " line whose payload is not JSON is skipped: right after it
\* was scanned the decoder has neither raised nor returned, and it yielded
\* no chunk; the chunk lines around it yield their chunks, so that at every
\* moment the chunks are exactly those of the chunk lines scanned so far
\* (short of the line at which the decoder returned or a misshapen payload
\* made it raise).
C4_BadJsonSkipped ==
    /\ (Scanned >= 1 /\ lineIds[Scanned] \in NotJsonLines) => pc \notin {"raised", "done"}
    /\ pc = "raised" => lineIds[Scanned] \in MisshapenLines
    /\ chunks = RefChunks(IF pc \in {"done", "raised"} THEN Scanned - 1 ELSE Scanned)

\* C4 witness: a line that is not JSON was skipped and the chunk line after
\* it yielded its chunk.
C4_Witness ==
    /\ lineIds = <<4, 1>>
    /\ Scanned = 2
    /\ chunks = <<ExpectedChunk(1)>>
    /\ pc = "read"

\* C8: whenever a raw read has been processed the buffer holds no newline
\* and is exactly the text received since the last newline, and the chunks
\* are those of the lines that have arrived whole, however the text was cut
\* into raw reads; no chunk is yielded before its line's newline arrives.
C8_BufferPersists ==
    /\ pc = "read" =>
          /\ ~HasNewline(buffer)
          /\ buffer = SinceNewline
          /\ chunks = RefChunks(Arrived)
    /\ Len(chunks) <= Len(RefChunks(Arrived))

\* C8 witness: a chunk line that arrived in more than one raw read has
\* yielded its one chunk.
C8_Witness ==
    /\ lineIds = <<1>>
    /\ tail = 0
    /\ continued
    /\ pc = "read"
    /\ pos = Len(wire)
    /\ chunks = <<ExpectedChunk(1)>>

\* C9: no payload makes an exception leave the decoder.
C9_NeverRaises == pc # "raised"

\* the text the decoder still has to go through: each byte not yet read
\* counts twice, once to be read and once to be scanned
Remaining == 2 * (Len(wire) - pos) + Len(buffer) + (IF Stopped THEN 0 ELSE 1)

\* C10: the decoder terminates (every step brings it nearer to the end of
\* the text, and it has stopped or can take a step), and when the response
\* ends without a sentinel the chunks are those of the newline-terminated
\* lines alone: the unterminated last line is still in the buffer, having
\* yielded nothing.
C10_EndWithoutSentinel ==
    /\ [][Remaining' < Remaining]_vars
    /\ [](pc = "scan" => HasNewline(buffer))
    /\ [](pc = "exhausted" =>
            /\ FirstDone(Len(lineIds)) = Len(lineIds) + 1
            /\ chunks = RefChunks(Len(lineIds))
            /\ buffer = (IF tail = 0 THEN <<>> ELSE EventLines[tail]))

\* C10 witness: the response ended on an unterminated, complete chunk line,
\* which yielded nothing.
C10_Witness ==
    /\ pc = "exhausted"
    /\ lineIds = <<1>>
    /\ tail = 1
    /\ buffer = EventLines[1]
    /\ chunks = <<ExpectedChunk(1)>>


(***************************************************************************)
(* The identities the constructor is specified to accept: "0x" followed by *)
(* exactly 40 hexadecimal characters, in either letter case.               *)
(***************************************************************************)
LowerHex == {"0", "1", "2", "3", "4", "5", "6", "7", "8", "9", "a", "b", "c", "d", "e", "f"}

UpperHex == {"A", "B", "C", "D", "E", "F"}

UpperLowerPairs ==
    {<<"A", "a">>, <<"B", "b">>, <<"C", "c">>, <<"D", "d">>, <<"E", "e">>, <<"F", "f">>}

IsIdentity(a) ==
    /\ ~a.none
    /\ Len(a.s) = 42
    /\ a.s[1] = "0"
    /\ a.s[2] = "x"
    /\ \A i \in 3..42 : a.s[i] \in LowerHex \cup UpperHex

\* t is s with every upper-case letter replaced by its lower-case letter
IsLowerForm(s, t) ==
    /\ Len(t) = Len(s)
    /\ \A i \in 1..Len(s) :
          \/ s[i] \notin UpperHex /\ t[i] = s[i]
          \/ <<s[i], t[i]>> \in UpperLowerPairs

\* C1: construction with a payer that is not "0x" and 40 hexadecimal
\* characters raises ValueError and stores no identity.
C1_MalformedRejected ==
    (ctor # "new" /\ ~IsIdentity(payer)) => (ctor = "ValueError" /\ _payer = <<>>)

\* C2: construction with "0x" and 40 hexadecimal characters of any letter
\* case succeeds and stores the lower-case form of the payer.
C2_IdentityLowercased ==
    (ctor # "new" /\ IsIdentity(payer)) => (ctor = "ok" /\ IsLowerForm(payer.s, _payer))

\* C2 witness: a client was constructed from an identity with an upper-case
\* hexadecimal digit.
C2_Witness ==
    /\ ctor = "ok"
    /\ IsIdentity(payer)
    /\ \E i \in 3..42 : payer.s[i] \in UpperHex
    /\ _payer # payer.s

(***************************************************************************)
(* What the error body of a response says, independently of the           *)
(* transport: the bodies that are a JSON object, their "code" and "error"  *)
(* fields and the object itself; the bodies that are empty or not JSON.    *)
(***************************************************************************)
ObjectBodies == {1, 2, 3, 4, 9, 10, 11}

UnparsableBodies == {5, 6}

\* the operations that go through _get or _post
GetPostOps == {"balance", "models", "usage", "deposit", "create"}

AllOps == GetPostOps \cup {"create_stream"}

BodyId == CHOOSE b \in 1..Len(ResponseBodies) : response.body = encode(ResponseBodies[b])

Answered == op \in AllOps /\ outcome.kind # "waiting"

Non2xx == response.line.status \in {402, 500}

ExpectedCode(b) ==
    CASE b = 1 -> PyStr(<<"I","N","S","U","F","F","I","C","I","E","N","T","_","F","U","N","D","S">>)
      [] b = 3 -> PyStr(<<"E","_","R","A","T","E">>)
      [] OTHER -> PyStr(<<"U","N","K","N","O","W","N">>)

GenericMessage ==
    IF response.line.status = 402 THEN PyStr(<<"H","T","T","P"," ","E","r","r","o","r"," ","4","0","2",":"," ","P","a","y","m","e","n","t"," ","R","e","q","u","i","r","e","d">>)
    ELSE PyStr(<<"H","T","T","P"," ","E","r","r","o","r"," ","5","0","0",":"," ","I","n","t","e","r","n","a","l"," ","S","e","r","v","e","r"," ","E","r","r","o","r">>)

ExpectedMessage(b) ==
    CASE b = 1 -> PyStr(<<"b","a","l","a","n","c","e"," ","t","o","o"," ","l","o","w">>)
      [] b = 2 -> PyStr(<<"n","o","p","e">>)
      [] OTHER -> GenericMessage

ExpectedData(b) ==
    CASE b = 1 -> PyDict(<<<<"c","o","d","e">>, <<"e","r","r","o","r">>>>, <<PyStr(<<"I","N","S","U","F","F","I","C","I","E","N","T","_","F","U","N","D","S">>), PyStr(<<"b","a","l","a","n","c","e"," ","t","o","o"," ","l","o","w">>)>>)
      [] b = 2 -> PyDict(<<<<"e","r","r","o","r">>>>, <<PyStr(<<"n","o","p","e">>)>>)
      [] b = 3 -> PyDict(<<<<"c","o","d","e">>>>, <<PyStr(<<"E","_","R","A","T","E">>)>>)
      [] b = 4 -> PyDict(<<>>, <<>>)
      [] b = 9 -> PyDict(<<<<"b","a","l","a","n","c","e">>>>, <<PyStr(<<"1",".","5">>)>>)
      [] b = 10 ->
           PyDict(<<<<"i","d">>, <<"m","o","d","e","l">>, <<"c","h","o","i","c","e","s">>, <<"u","s","a","g","e">>>>,
                  << PyStr(<<"a","b","c">>), PyStr(<<"m">>),
                     PyList(<< PyDict(<<<<"i","n","d","e","x">>, <<"m","e","s","s","a","g","e">>, <<"f","i","n","i","s","h","_","r","e","a","s","o","n">>>>,
                                      << PyNum(<<"0">>),
                                         PyDict(<<<<"r","o","l","e">>, <<"c","o","n","t","e","n","t">>>>,
                                                <<PyStr(<<"a","s","s","i","s","t","a","n","t">>), PyStr(<<"h","i">>)>>),
                                         PyStr(<<"s","t","o","p">>)>>) >>),
                     PyDict(<<<<"p","r","o","m","p","t","_","t","o","k","e","n","s">>, <<"c","o","m","p","l","e","t","i","o","n","_","t","o","k","e","n","s">>, <<"t","o","t","a","l","_","t","o","k","e","n","s">>>>,
                            <<PyNum(<<"3">>), PyNum(<<"1">>), PyNum(<<"4">>)>>) >>)
      [] b = 11 ->
           PyDict(<<<<"i","d">>, <<"c","h","o","i","c","e","s">>>>,
                  << PyStr(<<"a","b","c">>),
                     PyList(<<PyDict(<<<<"m","e","s","s","a","g","e">>>>, <<PyStr(<<"h","i">>)>>)>>) >>)

\* the PaymodelError the error body b calls for
ExpectedError(b) ==
    [kind |-> "PaymodelError", code |-> ExpectedCode(b), message |-> ExpectedMessage(b),
     data |-> ExpectedData(b), result |-> <<>>]

\* C5: a GET or POST that gets a non-2xx response with an empty or
\* unparsable body raises PaymodelError with code "UNKNOWN" and data None.
C5_UnparsableBodyUnknown ==
    (Answered /\ op \in GetPostOps /\ Non2xx /\ BodyId \in UnparsableBodies) =>
        (outcome.kind = "PaymodelError" /\ outcome.code = PyStr(<<"U","N","K","N","O","W","N">>) /\ outcome.data = None)

\* C6: a GET or POST that gets a non-2xx response whose body is a JSON
\* object raises PaymodelError with the body's "code" (or "UNKNOWN"), the
\* body's "error" (or the text of the HTTP error) and the parsed body as
\* data.
C6_ObjectBodyMapped ==
    (Answered /\ op \in GetPostOps /\ Non2xx /\ BodyId \in ObjectBodies) =>
        outcome = ExpectedError(BodyId)

\* C6 witness: a POST got 402 with a code and an error in the body and
\* raised the PaymodelError carrying them.
C6_Witness ==
    /\ op = "deposit"
    /\ response.line.status = 402
    /\ BodyId = 1
    /\ outcome.kind = "PaymodelError"
    /\ outcome.code = PyStr(<<"I","N","S","U","F","F","I","C","I","E","N","T","_","F","U","N","D","S">>)

\* C7: every operation, streaming chat completion included, that gets a
\* non-2xx response with a JSON object body raises the PaymodelError
\* carrying the body's code, message and data.
C7_EveryOperationRaisesPaymodelError ==
    (Answered /\ Non2xx /\ BodyId \in ObjectBodies) => outcome = ExpectedError(BodyId)

====
